---- MODULE Spec2Model ----
(***************************************************************************)
(* A model of fillfs (src/fillfs.c): the main thread, the background       *)
(* writer thread (fill_file_thread), the cleanup paths (clean_exit,        *)
(* exit_handler, signal_handler) and the part of the file system they act  *)
(* on.                                                                     *)
(*                                                                         *)
(* C strings are sequences of one-character strings.  size_t values are    *)
(* naturals below 2^SizeBits.  A file is an inode holding a sequence of    *)
(* bytes, each "old" (content present before the run) or "new" (written    *)
(* by this run); the directory maps path names to inodes, so that a file   *)
(* unlinked while open lives on as an orphan inode.                        *)
(*                                                                         *)
(* The command line is the path argument, the size token, the argument of  *)
(* -b and -s; main parses it, classifies the target, starts the writer and *)
(* polls it, printing the progress line when -s is given.                  *)
(*                                                                         *)
(* The termination signal is handled on the main thread (Linux delivers a  *)
(* process-directed signal to the main thread when it does not block it),  *)
(* so the writer thread keeps running while the handler does.  A signal    *)
(* that would arrive once exit() has started running the atexit handlers   *)
(* is left out: a second call of exit() is undefined.                      *)
(***************************************************************************)
EXTENDS Integers, Sequences, FiniteSets, TLC

\* ---------------------------------------------------------------- bounds
SizeBits == 29      \* width of size_t in the model
MaxLen == 3         \* largest requested size and largest existing file
MaxBlock == 2       \* largest block size
DiskCap == 3        \* bytes the file system can hold
TickSec == 30       \* seconds by which the clock advances in one step
MaxElapsed == 90    \* the clock stops advancing after this many seconds
MaxNum == 12        \* largest number in a token parse_size is tried on alone

\* ------------------------------------------------------ program constants
SIZE_MAX == 2^SizeBits - 1
MAX_FILENAME_LENGTH == 1024
EXIT_SUCCESS == 0
EXIT_FAILURE == 1
SIZE_T_BITS == 64
FILLFS_FILE_NAME == <<"/", ".", "f", "i", "l", "l", "f", "s">>
FLUSH_INTERVAL_SEC == 60

Min(a, b) == IF a < b THEN a ELSE b
Max(a, b) == IF a > b THEN a ELSE b

\* A path argument short enough for every buffer, and one of
\* MAX_FILENAME_LENGTH characters once "/.fillfs" is appended (its components
\* shorter than NAME_MAX).
ShortPath == <<"/", "m">>
LongPath ==
    [i \in 1..(MAX_FILENAME_LENGTH - Len(FILLFS_FILE_NAME)) |->
        IF i % 128 = 1 THEN "/" ELSE "d"]
EmptyString == << >>

VARIABLES
    path_kind,            \* what stat(path_arg) finds: "dir", "reg", "other", "nostat"
    st_size,              \* st.st_size as stat(path_arg) reported it
    file_size,            \* main's file_size: the requested size, SIZE_MAX when none
    block_size,           \* main's block_size, 0 until -b or the default sets it
    g_hidden_filename,    \* the global sentinel path, empty when unused
    args,                 \* fill_thread_args_t shared by the two threads
    pc_main,              \* where the main thread is
    pc_w,                 \* where the writer thread is
    exit_status,          \* the status handed to exit()
    proc,                 \* "running" or "exited"
    fs,                   \* directory: path -> inode
    idata,                \* inode -> contents
    fd,                   \* the writer's descriptor: "none" or an inode
    fd_off,               \* file offset of the descriptor
    total_written_local,  \* the writer's local counter
    n_unlink,             \* history: unlink calls issued
    open_flags_used,      \* history: flags of the open call issued
    loop_end,             \* history: what ended the write loop
    n_fsync,              \* history: fsync calls issued
    fsync_failed,         \* history: the fsync returned -1
    n_close,              \* history: close calls issued
    wrote,                \* history: a write call was issued
    sum_ret,              \* history: sum of the byte counts write returned
    write_after_stop,     \* history: a write was issued after a failed write
    w_fail,               \* history: "none", "malloc" or "open"
    sig_handled,          \* history: signal_handler ran
    sig_after_reg,        \* history: it ran with the sentinel path registered
    since_flush,          \* clock: seconds since the loop started or last flush
    cur_write,            \* clock: seconds spent in the write call in flight
    tok,                  \* parse_size alone: the size token it is given
    parse_result,         \* parse_size alone: what it returned
    arg_path,             \* argv: a path argument is given
    arg_size,             \* argv: the size token, NoToken when none
    arg_block,            \* argv: the argument of -b, NoToken when none
    last_req,             \* history: the count the last write call asked for
    last_ret,             \* history: what the last write call returned
    prev_written,         \* history: total_written_local before the last write call
    show_status,          \* argv: -s is given
    statvfs_free,         \* f_bavail * f_bsize as statvfs reports it, 0 when it fails
    shown,                \* the figures of the last progress line printed
    emitted,              \* the kinds of message printed so far
    path_arg,             \* argv: the path argument
    fs_cleaned,           \* history: the directory as the first removal left it
    n_progress            \* history: write calls that returned at least 1 byte

vars == << path_kind, st_size, file_size, block_size, g_hidden_filename, args, pc_main,
           pc_w, exit_status, proc, fs, idata, fd, fd_off, total_written_local,
           n_unlink, open_flags_used, loop_end, n_fsync, fsync_failed, n_close,
           wrote, sum_ret, write_after_stop, w_fail, sig_handled, sig_after_reg,
           since_flush, cur_write, tok, parse_result, arg_path, arg_size,
           arg_block, last_req, last_ret, prev_written, show_status,
           statvfs_free, shown, emitted, path_arg, fs_cleaned, n_progress >>

cfgVars == << path_kind, st_size, tok, arg_path, arg_size, arg_block, show_status,
             statvfs_free, path_arg >>
extVars == << parse_result >>
reqVars == << last_req, last_ret, prev_written, n_progress >>
outVars == << shown, emitted >>
sizeVars == << file_size, block_size >>
mainVars == << file_size, block_size, g_hidden_filename, pc_main, exit_status, proc >>
fsVars == << fs, idata >>
fdVars == << fd, fd_off >>
sigVars == << sig_handled, sig_after_reg >>
clockVars == << since_flush, cur_write >>
writerHist == << open_flags_used, loop_end, n_fsync, fsync_failed, n_close,
                 wrote, sum_ret, write_after_stop, w_fail >>

\* ------------------------------------------------------------- helpers
\* The path argument given on the command line.
PathArg == path_arg


\* snprintf(path, size, "%s%s", a, b): at most size - 1 characters are kept.
Snprintf(size, a, b) == SubSeq(a \o b, 1, Min(Len(a \o b), size - 1))

generate_file_path(mount_point) ==
    Snprintf(MAX_FILENAME_LENGTH, mount_point, FILLFS_FILE_NAME)

\* The path generate_file_path is meant to produce.
Sentinel == PathArg \o FILLFS_FILE_NAME

\* g_hidden_filename[0] != '\0' (clean_exit and exit_handler).
HiddenFileUsed_Inverted(name) == name = EmptyString
HiddenFileUsed(name) == name # EmptyString

\* unlink(path): the call is counted whether or not the name exists.
Unlinked(dir, path) == [p \in (DOMAIN dir) \ {path} |-> dir[p]]

\* The directory as the first run of the removal (clean_exit or exit_handler)
\* left it.
NotCleaned == [ran |-> FALSE, dir |-> << >>]
FirstCleaned(cleaned, dir) == IF cleaned.ran THEN cleaned ELSE [ran |-> TRUE, dir |-> dir]

\* open_flags of fill_file_thread.
OpenFlags_AlwaysCreate(existing_file) == {"O_WRONLY", "O_CREAT", "O_TRUNC"}
OpenFlags(existing_file) ==
    IF existing_file # 0 THEN {"O_WRONLY"}
    ELSE {"O_WRONLY", "O_CREAT", "O_TRUNC"}

\* final_size of main, for an existing regular file.
FinalSize_NoClamp(requested, file_actual_size) ==
    IF requested = SIZE_MAX THEN file_actual_size ELSE requested
FinalSize(requested, file_actual_size) ==
    IF requested = SIZE_MAX THEN file_actual_size
    ELSE IF requested < file_actual_size THEN requested ELSE file_actual_size

\* The condition of the write loop.
LoopCond_Inclusive(written, target) == written <= target
LoopCond(written, target) == written < target

\* bytes_to_write of one iteration.
BytesToWrite_NoClamp(block, target, written) == block
BytesToWrite(block, target, written) ==
    IF target - written < block THEN target - written ELSE block

\* The status main hands to clean_exit.
ExitStatus_AlwaysSuccess(error) == EXIT_SUCCESS
ExitStatus(error) == IF error # 0 THEN EXIT_FAILURE ELSE EXIT_SUCCESS

\* The file after n bytes are written at offset off.
WriteData(data, off, n) ==
    [i \in 1..Max(Len(data), off + n) |->
        IF i > off /\ i <= off + n THEN "new" ELSE data[i]]

Repeat(x, n) == [i \in 1..n |-> x]

\* ------------------------------------------------------------ parse_size
\* An unsigned integer wider than 31 bits is kept as a sequence of 16-bit
\* limbs, least significant first; arithmetic on n limbs is modulo 2^(16 n).
\* size_t and unsigned long long have SIZE_T_BITS bits.
LimbBase == 2^16
SizeLimbs == SIZE_T_BITS \div 16
WideLimbs == SizeLimbs + 2

\* v < 2^31 as n limbs.
ToLimbs(v, n) ==
    [i \in 1..n |-> IF i = 1 THEN v % LimbBase
                     ELSE IF i = 2 THEN v \div LimbBase ELSE 0]

\* The limbs x, extended with zero limbs to n limbs.
Widen(x, n) == [i \in 1..n |-> IF i <= Len(x) THEN x[i] ELSE 0]

\* A limb value below 2^30, as that integer.
FitsNat(x) == x[2] < 2^14 /\ \A i \in 3..Len(x) : x[i] = 0
ToNat(x) == x[1] + x[2] * LimbBase

RECURSIVE Carry(_, _, _)
Carry(x, m, i) ==
    IF i = 0 THEN 0 ELSE (x[i] * m + Carry(x, m, i - 1)) \div LimbBase

\* x * m for m < 2^14, truncated to the width of x.
MulSmall(x, m) ==
    [i \in 1..Len(x) |-> (x[i] * m + Carry(x, m, i - 1)) % LimbBase]

\* 1024ULL * ... * 1024ULL with k factors, on n limbs.
RECURSIVE Pow1024(_, _)
Pow1024(k, n) ==
    IF k = 0 THEN ToLimbs(1, n) ELSE MulSmall(Pow1024(k - 1, n), 1024)

\* The constant the switch multiplies by for the k-th suffix, as the compiler
\* computes it in unsigned long long.
Multiplier_Exact(k) == Pow1024(k, WideLimbs)
Multiplier(k) == Pow1024(k, SizeLimbs)

DigitChars == <<"0", "1", "2", "3", "4", "5", "6", "7", "8", "9">>
IsDigit(c) == \E i \in 1..Len(DigitChars) : DigitChars[i] = c
DigitVal(c) == (CHOOSE i \in 1..Len(DigitChars) : DigitChars[i] = c) - 1

\* strtoull(str, &endptr, 10) on a string with no sign or leading space and
\* few enough digits not to saturate: the value and the index endptr is at.
RECURSIVE StrtoullFrom(_, _, _)
StrtoullFrom(str, i, acc) ==
    IF i <= Len(str) /\ IsDigit(str[i])
       THEN StrtoullFrom(str, i + 1, acc * 10 + DigitVal(str[i]))
       ELSE [value |-> acc, endptr |-> i]
Strtoull(str) == StrtoullFrom(str, 1, 0)

UpperChars == <<"K", "M", "G", "T", "P", "E", "Z", "Y", "Q">>
LowerChars == <<"k", "m", "g", "t", "p", "e", "z", "y", "q">>
\* tolower, on the letters the model's tokens use.
ToLower(c) ==
    IF \E i \in 1..Len(UpperChars) : UpperChars[i] = c
       THEN LowerChars[CHOOSE i \in 1..Len(UpperChars) : UpperChars[i] = c]
       ELSE c

\* The suffixes of the switch, in the order of their powers of 1024.
SuffixChars == <<"k", "m", "g", "t", "p", "e", "z", "y">>
SuffixPower(c) == CHOOSE k \in 1..Len(SuffixChars) : SuffixChars[k] = c

\* parse_size: [ok |-> TRUE, size |-> limbs], or ok |-> FALSE where the
\* code prints "Invalid size suffix" and calls exit(EXIT_FAILURE).
parse_size(size_str) ==
    LET r == Strtoull(size_str)
        size == ToLimbs(r.value, SizeLimbs)
        suffix == IF r.endptr <= Len(size_str)
                     THEN ToLower(size_str[r.endptr]) ELSE "NUL"
    IN  IF suffix = "NUL" THEN [ok |-> TRUE, size |-> size]
        ELSE IF \E k \in 1..Len(SuffixChars) : SuffixChars[k] = suffix
           THEN [ok |-> TRUE,
                 size |-> MulSmall(Multiplier(SuffixPower(suffix)), r.value)]
           ELSE [ok |-> FALSE, size |-> size]

\* A decimal token for n < 100.
NumTok(n) ==
    IF n < 10 THEN <<DigitChars[n + 1]>>
    ELSE <<DigitChars[(n \div 10) + 1], DigitChars[(n % 10) + 1]>>

\* parse_size alone, before the call and after it.
NotParsed == [called |-> FALSE, ok |-> FALSE, size |-> ToLimbs(0, SizeLimbs)]
Parsed(r) == [called |-> TRUE, ok |-> r.ok, size |-> r.size]

\* No token given.
NoToken == <<"none">>

\* The tokens parse_size is tried on alone: a number, then nothing, one of
\* the suffixes in either case, or a letter that is no suffix.
ParseSuffixes ==
    {<< >>, <<"q">>} \cup {<<SuffixChars[k]>> : k \in 1..Len(SuffixChars)}
                    \cup {<<UpperChars[k]>> : k \in 1..Len(SuffixChars)}
ParseTokens ==
    {[num |-> n, suffix |-> sf, text |-> NumTok(n) \o sf] :
        n \in 0..MaxNum, sf \in ParseSuffixes}

\* The command lines tried: a size token that is a number up to MaxLen or
\* has a letter that is no suffix; an argument of -b that is a number up to
\* MaxBlock, has a letter that is no suffix, or overflows to 0.  Command
\* lines with -h or an unknown option are left out.
InvalidTok == <<"1", "q">>
OverflowTok == <<"1", "Z">>
SizeArgs == {NoToken, InvalidTok} \cup {NumTok(n) : n \in 0..MaxLen}
BlockArgs == {NoToken, InvalidTok, OverflowTok} \cup {NumTok(n) : n \in 0..MaxBlock}

\* The argument of the call that sets the default block size.
DefaultBlockTok == <<"3", "2", "M">>

\* if (block_size == 0) of the -b case.
BlockRejected_Never(size) == FALSE
BlockRejected(size) == size = ToLimbs(0, SizeLimbs)

\* What statvfs can report as free for the directory: nothing (or the call
\* fails), or less than what the writer will manage to write.
FreeHints == {0, DiskCap - 1}

\* ------------------------------------------------------- the progress line
\* A percentage is kept in hundredths, as "%.2f" prints it, rounded down.
PercentOf(tw, total) == (100 * 100 * tw) \div total

\* if (progress_percent > 100.0) progress_percent = 100.0.
Cap100_None(percent) == percent
Cap100(percent) == IF percent > 100 * 100 THEN 100 * 100 ELSE percent

\* progress_percent and remaining_bytes of the branch for a directory filled
\* until it is full.
UnboundedFigures(tw, known_free_space) ==
    [printed |-> TRUE,
     tw |-> tw,
     percent |-> IF known_free_space > 0
                    THEN Cap100(PercentOf(tw, known_free_space)) ELSE 0,
     remaining |-> IF known_free_space > tw THEN known_free_space - tw ELSE 0]

\* progress_percent and remaining_bytes of the branch for a definite size.
BoundedFigures(tw, target) ==
    [printed |-> TRUE,
     tw |-> tw,
     percent |-> IF target > 0 THEN Cap100(PercentOf(tw, target)) ELSE 0,
     remaining |-> target - tw]

NothingShown == [printed |-> FALSE, tw |-> 0, percent |-> 0, remaining |-> 0]

\* ---------------------------------------------------------------- Init
InitJob ==
    /\ path_kind \in {"dir", "reg", "other", "nostat"}
    /\ arg_path \in BOOLEAN
    /\ arg_size \in IF arg_path THEN SizeArgs ELSE {NoToken}
    /\ arg_block \in BlockArgs
    /\ show_status \in BOOLEAN
    /\ statvfs_free \in IF path_kind = "dir" /\ arg_size = NoToken THEN FreeHints ELSE {0}
    /\ shown = NothingShown
    /\ emitted = {}
    /\ fs_cleaned = NotCleaned
    /\ last_req = 0
    /\ n_progress = 0
    /\ last_ret = 0
    /\ prev_written = 0
    /\ file_size = SIZE_MAX
    /\ block_size = 0
    /\ g_hidden_filename = EmptyString
    /\ args = [filename |-> EmptyString, file_size |-> 0, block_size |-> 0,
               existing_file |-> 0, known_free_space |-> 0, total_written |-> 0,
               done |-> 0, error |-> 0]
    /\ pc_main = "getopt"
    /\ pc_w = "not_started"
    /\ exit_status = EXIT_SUCCESS
    /\ proc = "running"
    /\ \/ /\ path_kind = "reg"
          /\ fs = (PathArg :> "ino_pre")
          /\ st_size \in 0..MaxLen
          /\ idata = [ino_pre |-> Repeat("old", st_size), ino_new |-> << >>]
       \/ /\ path_kind = "dir"
          /\ st_size = 0
          /\ \/ fs = (Sentinel :> "ino_pre") /\ idata = [ino_pre |-> <<"old">>, ino_new |-> << >>]
             \/ fs = << >> /\ idata = [ino_pre |-> << >>, ino_new |-> << >>]
       \/ /\ path_kind \in {"other", "nostat"}
          /\ st_size = 0
          /\ fs = << >>
          /\ idata = [ino_pre |-> << >>, ino_new |-> << >>]
    /\ fd = "none"
    /\ fd_off = 0
    /\ total_written_local = 0
    /\ n_unlink = 0
    /\ open_flags_used = {}
    /\ loop_end = "none"
    /\ n_fsync = 0
    /\ fsync_failed = FALSE
    /\ n_close = 0
    /\ wrote = FALSE
    /\ sum_ret = 0
    /\ write_after_stop = FALSE
    /\ w_fail = "none"
    /\ sig_handled = FALSE
    /\ sig_after_reg = FALSE
    /\ since_flush = 0
    /\ cur_write = 0
    /\ tok = NoToken
    /\ parse_result = NotParsed

Init == path_arg = ShortPath /\ InitJob

\* The same runs for the long path, on fewer command lines.
InitLongPath ==
    /\ path_arg = LongPath
    /\ InitJob
    /\ arg_size \in {NoToken, InvalidTok, NumTok(1)}
    /\ arg_block \in {NoToken, InvalidTok, NumTok(0), NumTok(1)}
    /\ st_size <= 1
    /\ statvfs_free = 0


\* ------------------------------------------------------------ main thread
Running == proc = "running"

\* getopt_long returns -1 with no -b seen.
MainGetoptEnd ==
    /\ Running /\ pc_main = "getopt" /\ arg_block = NoToken
    /\ pc_main' = "check_optind"
    /\ UNCHANGED << cfgVars, extVars, fs_cleaned, outVars, reqVars, sizeVars,
                    g_hidden_filename, args, pc_w, exit_status, proc, fsVars,
                    fdVars, total_written_local, n_unlink, writerHist, sigVars,
                    clockVars >>

\* case 'b': parse_size(optarg) returns a size that is not 0.
MainGetoptBlock ==
    /\ Running /\ pc_main = "getopt" /\ arg_block # NoToken
    /\ LET r == parse_size(arg_block)
       IN  /\ r.ok /\ ~BlockRejected(r.size) /\ FitsNat(r.size)
           /\ block_size' = ToNat(r.size)
    /\ pc_main' = "check_optind"
    /\ UNCHANGED << cfgVars, extVars, fs_cleaned, outVars, reqVars, file_size,
                    g_hidden_filename, args, pc_w, exit_status, proc, fsVars,
                    fdVars, total_written_local, n_unlink, writerHist, sigVars,
                    clockVars >>

\* case 'b': parse_size(optarg) calls exit(EXIT_FAILURE) on the suffix.
MainGetoptBlockSuffix ==
    /\ Running /\ pc_main = "getopt" /\ arg_block # NoToken
    /\ ~parse_size(arg_block).ok
    /\ exit_status' = EXIT_FAILURE
    /\ pc_main' = "eh_unlink"
    /\ emitted' = emitted \cup {"stderr: Invalid size suffix"}
    /\ UNCHANGED << cfgVars, extVars, fs_cleaned, shown, reqVars, sizeVars,
                    g_hidden_filename, args, pc_w, proc, fsVars, fdVars,
                    total_written_local, n_unlink, writerHist, sigVars,
                    clockVars >>

\* case 'b': block_size == 0, "Invalid block size", return 1.
MainGetoptBlockZero ==
    /\ Running /\ pc_main = "getopt" /\ arg_block # NoToken
    /\ LET r == parse_size(arg_block)
       IN  /\ r.ok /\ BlockRejected(r.size)
           /\ block_size' = 0
    /\ exit_status' = EXIT_FAILURE
    /\ pc_main' = "eh_unlink"
    /\ emitted' = emitted \cup {"stderr: Invalid block size"}
    /\ UNCHANGED << cfgVars, extVars, fs_cleaned, shown, reqVars, file_size,
                    g_hidden_filename, args, pc_w, proc, fsVars, fdVars,
                    total_written_local, n_unlink, writerHist, sigVars,
                    clockVars >>

\* optind >= argc: "Missing <mount_point_or_file> argument", return 1.
MainMissingPath ==
    /\ Running /\ pc_main = "check_optind" /\ ~arg_path
    /\ exit_status' = EXIT_FAILURE
    /\ pc_main' = "eh_unlink"
    /\ emitted' = emitted \cup {"stderr: Missing argument", "stderr: usage"}
    /\ UNCHANGED << cfgVars, extVars, fs_cleaned, shown, reqVars, sizeVars,
                    g_hidden_filename, args, pc_w, proc, fsVars, fdVars,
                    total_written_local, n_unlink, writerHist, sigVars,
                    clockVars >>

\* path_arg = argv[optind++].
MainPathArg ==
    /\ Running /\ pc_main = "check_optind" /\ arg_path
    /\ pc_main' = "parse_file_size"
    /\ UNCHANGED << cfgVars, extVars, fs_cleaned, outVars, reqVars, sizeVars,
                    g_hidden_filename, args, pc_w, exit_status, proc, fsVars,
                    fdVars, total_written_local, n_unlink, writerHist, sigVars,
                    clockVars >>

\* No further argument: file_size stays SIZE_MAX.
MainNoFileSize ==
    /\ Running /\ pc_main = "parse_file_size" /\ arg_size = NoToken
    /\ pc_main' = "default_block"
    /\ UNCHANGED << cfgVars, extVars, fs_cleaned, outVars, reqVars, sizeVars,
                    g_hidden_filename, args, pc_w, exit_status, proc, fsVars,
                    fdVars, total_written_local, n_unlink, writerHist, sigVars,
                    clockVars >>

\* file_size = parse_size(argv[optind]).
MainParseFileSize ==
    /\ Running /\ pc_main = "parse_file_size" /\ arg_size # NoToken
    /\ LET r == parse_size(arg_size)
       IN  /\ r.ok /\ FitsNat(r.size)
           /\ file_size' = ToNat(r.size)
    /\ pc_main' = "default_block"
    /\ UNCHANGED << cfgVars, extVars, fs_cleaned, outVars, reqVars, block_size,
                    g_hidden_filename, args, pc_w, exit_status, proc, fsVars,
                    fdVars, total_written_local, n_unlink, writerHist, sigVars,
                    clockVars >>

\* parse_size(argv[optind]) calls exit(EXIT_FAILURE) on the suffix.
MainParseFileSizeSuffix ==
    /\ Running /\ pc_main = "parse_file_size" /\ arg_size # NoToken
    /\ ~parse_size(arg_size).ok
    /\ exit_status' = EXIT_FAILURE
    /\ pc_main' = "eh_unlink"
    /\ emitted' = emitted \cup {"stderr: Invalid size suffix"}
    /\ UNCHANGED << cfgVars, extVars, fs_cleaned, shown, reqVars, sizeVars,
                    g_hidden_filename, args, pc_w, proc, fsVars, fdVars,
                    total_written_local, n_unlink, writerHist, sigVars,
                    clockVars >>

\* if (block_size == 0) block_size = parse_size("32M").
MainDefaultBlock ==
    /\ Running /\ pc_main = "default_block"
    /\ block_size' = IF block_size = 0 THEN ToNat(parse_size(DefaultBlockTok).size)
                                       ELSE block_size
    /\ pc_main' = "classify"
    /\ UNCHANGED << cfgVars, extVars, fs_cleaned, outVars, reqVars, file_size,
                    g_hidden_filename, args, pc_w, exit_status, proc, fsVars,
                    fdVars, total_written_local, n_unlink, writerHist, sigVars,
                    clockVars >>

\* stat(path_arg) fails: perror, return 1.
MainStatFail ==
    /\ Running /\ pc_main = "classify" /\ path_kind = "nostat"
    /\ exit_status' = EXIT_FAILURE
    /\ pc_main' = "eh_unlink"
    /\ emitted' = emitted \cup {"stderr: stat"}
    /\ UNCHANGED << cfgVars, extVars, fs_cleaned, shown, reqVars, sizeVars,
                    g_hidden_filename, args, pc_w, proc, fsVars, fdVars,
                    total_written_local, n_unlink, writerHist, sigVars,
                    clockVars >>

\* is_directory: register the sentinel path and fill in args.
MainClassifyDir ==
    /\ Running /\ pc_main = "classify" /\ path_kind = "dir"
    /\ g_hidden_filename' = generate_file_path(PathArg)
    /\ args' = [args EXCEPT !.block_size = block_size,
                            !.filename = g_hidden_filename',
                            !.file_size = file_size,
                            !.known_free_space =
                                IF file_size = SIZE_MAX THEN statvfs_free ELSE 0,
                            !.existing_file = 0]
    /\ pc_main' = "create"
    /\ UNCHANGED << cfgVars, extVars, fs_cleaned, outVars, reqVars, sizeVars,
                    pc_w, exit_status, proc, fsVars, fdVars,
                    total_written_local, n_unlink, writerHist, sigVars,
                    clockVars >>

\* is_reg_file: the target is the user's file, clamped to its size.
MainClassifyReg ==
    /\ Running /\ pc_main = "classify" /\ path_kind = "reg"
    /\ args' = [args EXCEPT !.block_size = block_size,
                            !.filename = PathArg,
                            !.file_size = FinalSize(file_size, st_size),
                            !.known_free_space = 0,
                            !.existing_file = 1]
    /\ pc_main' = "create"
    /\ UNCHANGED << cfgVars, extVars, fs_cleaned, outVars, reqVars, sizeVars,
                    g_hidden_filename, pc_w, exit_status, proc, fsVars, fdVars,
                    total_written_local, n_unlink, writerHist, sigVars,
                    clockVars >>

\* Neither a directory nor a regular file: return 1.
MainClassifyOther ==
    /\ Running /\ pc_main = "classify" /\ path_kind = "other"
    /\ args' = [args EXCEPT !.block_size = block_size]
    /\ exit_status' = EXIT_FAILURE
    /\ pc_main' = "eh_unlink"
    /\ emitted' = emitted \cup {"stderr: neither a directory nor a regular file"}
    /\ UNCHANGED << cfgVars, extVars, fs_cleaned, shown, reqVars, sizeVars,
                    g_hidden_filename, pc_w, proc, fsVars, fdVars,
                    total_written_local, n_unlink, writerHist, sigVars,
                    clockVars >>

\* pthread_create succeeds: the writer starts, main enters its polling loop.
MainCreateThread ==
    /\ Running /\ pc_main = "create"
    /\ pc_w' = "malloc"
    /\ pc_main' = "poll"
    /\ UNCHANGED << cfgVars, extVars, fs_cleaned, outVars, reqVars, sizeVars,
                    g_hidden_filename, args, exit_status, proc, fsVars, fdVars,
                    total_written_local, n_unlink, writerHist, sigVars,
                    clockVars >>

\* pthread_create fails: clean_exit(EXIT_FAILURE) for a directory, return 1 otherwise.
MainCreateThreadFail ==
    /\ Running /\ pc_main = "create"
    /\ exit_status' = EXIT_FAILURE
    /\ pc_main' = IF path_kind = "dir" THEN "ce_unlink" ELSE "eh_unlink"
    /\ emitted' = emitted \cup {"stderr: pthread_create"}
    /\ UNCHANGED << cfgVars, extVars, fs_cleaned, shown, reqVars, sizeVars,
                    g_hidden_filename, args, pc_w, proc, fsVars, fdVars,
                    total_written_local, n_unlink, writerHist, sigVars,
                    clockVars >>

\* One round of the polling loop that prints the progress line: tw is read
\* from the shared counter, the figures are computed and printed.
MainObserve_ClearsCounter ==
    /\ Running /\ pc_main = "poll" /\ args.done = 0 /\ show_status
    /\ LET tw == args.total_written
       IN  shown' = IF path_kind = "dir" /\ args.file_size = SIZE_MAX
                       THEN UnboundedFigures(tw, args.known_free_space)
                       ELSE BoundedFigures(tw, args.file_size)
    /\ args' = [args EXCEPT !.total_written = 0]
    /\ emitted' = emitted \cup {"stdout: progress"}
    /\ UNCHANGED << cfgVars, extVars, fs_cleaned, reqVars, sizeVars,
                    g_hidden_filename, pc_main, pc_w, exit_status, proc, fsVars,
                    fdVars, total_written_local, n_unlink, writerHist, sigVars,
                    clockVars >>
MainObserve ==
    /\ Running /\ pc_main = "poll" /\ args.done = 0 /\ show_status
    /\ LET tw == args.total_written
       IN  shown' = IF path_kind = "dir" /\ args.file_size = SIZE_MAX
                       THEN UnboundedFigures(tw, args.known_free_space)
                       ELSE BoundedFigures(tw, args.file_size)
    /\ emitted' = emitted \cup {"stdout: progress"}
    /\ UNCHANGED << cfgVars, extVars, fs_cleaned, reqVars, sizeVars,
                    g_hidden_filename, args, pc_main, pc_w, exit_status, proc,
                    fsVars, fdVars, total_written_local, n_unlink, writerHist,
                    sigVars, clockVars >>

\* while (!args.done) ends.
MainPollExit_OnErrorOnly ==
    /\ Running /\ pc_main = "poll" /\ args.error # 0
    /\ pc_main' = "join"
    /\ UNCHANGED << cfgVars, extVars, fs_cleaned, outVars, reqVars, sizeVars,
                    g_hidden_filename, args, pc_w, exit_status, proc, fsVars,
                    fdVars, total_written_local, n_unlink, writerHist, sigVars,
                    clockVars >>
MainPollExit ==
    /\ Running /\ pc_main = "poll" /\ args.done # 0
    /\ pc_main' = "join"
    /\ UNCHANGED << cfgVars, extVars, fs_cleaned, outVars, reqVars, sizeVars,
                    g_hidden_filename, args, pc_w, exit_status, proc, fsVars,
                    fdVars, total_written_local, n_unlink, writerHist, sigVars,
                    clockVars >>

\* pthread_join returns once the writer thread has ended; with show_status
\* the final summary is printed.
MainJoin ==
    /\ Running /\ pc_main = "join" /\ pc_w = "thread_exit"
    /\ pc_main' = "check_error"
    /\ emitted' = IF show_status
                   THEN emitted \cup {"stdout: finalizing", "stdout: complete"}
                   ELSE emitted
    /\ UNCHANGED << cfgVars, extVars, fs_cleaned, shown, reqVars, sizeVars,
                    g_hidden_filename, args, pc_w, exit_status, proc, fsVars,
                    fdVars, total_written_local, n_unlink, writerHist, sigVars,
                    clockVars >>

\* if (args.error) clean_exit(EXIT_FAILURE) else clean_exit(EXIT_SUCCESS).
MainCheckError ==
    /\ Running /\ pc_main = "check_error"
    /\ exit_status' = ExitStatus(args.error)
    /\ pc_main' = "ce_unlink"
    /\ UNCHANGED << cfgVars, extVars, fs_cleaned, outVars, reqVars, sizeVars,
                    g_hidden_filename, args, pc_w, proc, fsVars, fdVars,
                    total_written_local, n_unlink, writerHist, sigVars,
                    clockVars >>

\* clean_exit: unlink the sentinel if one is registered.
CleanExitUnlink ==
    /\ Running /\ pc_main = "ce_unlink"
    /\ IF HiddenFileUsed(g_hidden_filename)
          THEN /\ fs' = Unlinked(fs, g_hidden_filename)
               /\ n_unlink' = n_unlink + 1
          ELSE UNCHANGED << fs, n_unlink >>
    /\ fs_cleaned' = FirstCleaned(fs_cleaned, fs')
    /\ pc_main' = "ce_exit"
    /\ UNCHANGED << cfgVars, extVars, outVars, reqVars, sizeVars,
                    g_hidden_filename, args, pc_w, exit_status, proc, idata,
                    fdVars, total_written_local, writerHist, sigVars,
                    clockVars >>

\* clean_exit: exit(success) starts running the atexit handlers.
CleanExitExit ==
    /\ Running /\ pc_main = "ce_exit"
    /\ pc_main' = "eh_unlink"
    /\ UNCHANGED << cfgVars, extVars, fs_cleaned, outVars, reqVars, sizeVars,
                    g_hidden_filename, args, pc_w, exit_status, proc, fsVars,
                    fdVars, total_written_local, n_unlink, writerHist, sigVars,
                    clockVars >>

\* exit_handler, run by exit() or by main returning.
ExitHandler_FailsOnAbsent ==
    /\ Running /\ pc_main = "eh_unlink"
    /\ IF HiddenFileUsed(g_hidden_filename)
          THEN /\ fs' = Unlinked(fs, g_hidden_filename)
               /\ n_unlink' = n_unlink + 1
          ELSE UNCHANGED << fs, n_unlink >>
    /\ fs_cleaned' = FirstCleaned(fs_cleaned, fs')
    /\ pc_main' = "terminate"
    /\ exit_status' = IF HiddenFileUsed(g_hidden_filename) /\ g_hidden_filename \notin DOMAIN fs
                       THEN EXIT_FAILURE ELSE exit_status
    /\ UNCHANGED << cfgVars, extVars, outVars, reqVars, sizeVars,
                    g_hidden_filename, args, pc_w, proc, idata, fdVars,
                    total_written_local, writerHist, sigVars, clockVars >>
ExitHandler ==
    /\ Running /\ pc_main = "eh_unlink"
    /\ IF HiddenFileUsed(g_hidden_filename)
          THEN /\ fs' = Unlinked(fs, g_hidden_filename)
               /\ n_unlink' = n_unlink + 1
          ELSE UNCHANGED << fs, n_unlink >>
    /\ fs_cleaned' = FirstCleaned(fs_cleaned, fs')
    /\ pc_main' = "terminate"
    /\ UNCHANGED << cfgVars, extVars, outVars, reqVars, sizeVars,
                    g_hidden_filename, args, pc_w, exit_status, proc, idata,
                    fdVars, total_written_local, writerHist, sigVars,
                    clockVars >>

\* exit() ends the process: every thread stops.
Terminate ==
    /\ Running /\ pc_main = "terminate"
    /\ proc' = "exited"
    /\ pc_main' = "exited"
    /\ UNCHANGED << cfgVars, extVars, fs_cleaned, outVars, reqVars, sizeVars,
                    g_hidden_filename, args, pc_w, exit_status, fsVars, fdVars,
                    total_written_local, n_unlink, writerHist, sigVars,
                    clockVars >>

\* Where the main thread can be when a signal interrupts it.
SignalPoints == {"getopt", "check_optind", "parse_file_size", "default_block",
                 "classify", "create", "poll", "join", "check_error",
                 "ce_unlink", "ce_exit"}

\* SIGINT, SIGTERM or SIGHUP: signal_handler calls clean_exit(EXIT_FAILURE) and
\* never returns to what the main thread was doing.
SignalHandler ==
    /\ Running /\ pc_main \in SignalPoints /\ ~sig_handled
    /\ sig_handled' = TRUE
    /\ sig_after_reg' = (g_hidden_filename # EmptyString)
    /\ exit_status' = EXIT_FAILURE
    /\ pc_main' = "ce_unlink"
    /\ emitted' = emitted \cup {"stderr: Caught signal"}
    /\ UNCHANGED << cfgVars, extVars, fs_cleaned, shown, reqVars, sizeVars,
                    g_hidden_filename, args, pc_w, proc, fsVars, fdVars,
                    total_written_local, n_unlink, writerHist, clockVars >>


\* ---------------------------------------------------------- writer thread
InWriter(label) == Running /\ pc_w = label

\* malloc(block_size) succeeds; the buffer is filled.
WriterMalloc ==
    /\ InWriter("malloc")
    /\ pc_w' = "open"
    /\ UNCHANGED << cfgVars, extVars, fs_cleaned, outVars, reqVars, mainVars,
                    args, fsVars, fdVars, total_written_local, n_unlink,
                    writerHist, sigVars, clockVars >>

\* malloc fails: error = 1, then done = 1.
WriterMallocFail_NoError ==
    /\ InWriter("malloc")
    /\ args' = args
    /\ w_fail' = "malloc"
    /\ pc_w' = "set_done"
    /\ emitted' = emitted \cup {"stderr: malloc"}
    /\ UNCHANGED << cfgVars, extVars, fs_cleaned, shown, reqVars, mainVars,
                    fsVars, fdVars, total_written_local, n_unlink,
                    open_flags_used, loop_end, n_fsync, fsync_failed, n_close,
                    wrote, sum_ret, write_after_stop, sigVars, clockVars >>
WriterMallocFail ==
    /\ InWriter("malloc")
    /\ args' = [args EXCEPT !.error = 1]
    /\ w_fail' = "malloc"
    /\ pc_w' = "set_done"
    /\ emitted' = emitted \cup {"stderr: malloc"}
    /\ UNCHANGED << cfgVars, extVars, fs_cleaned, shown, reqVars, mainVars,
                    fsVars, fdVars, total_written_local, n_unlink,
                    open_flags_used, loop_end, n_fsync, fsync_failed, n_close,
                    wrote, sum_ret, write_after_stop, sigVars, clockVars >>

\* open(params->filename, open_flags, 0666) succeeds.
WriterOpen ==
    /\ InWriter("open")
    /\ args.filename # EmptyString
    /\ LET flags == OpenFlags(args.existing_file)
           name == args.filename
       IN  /\ open_flags_used' = flags
           /\ IF name \in DOMAIN fs
                 THEN /\ fd' = fs[name]
                      /\ fs' = fs
                      /\ idata' = IF "O_TRUNC" \in flags
                                     THEN [idata EXCEPT ![fs[name]] = << >>]
                                     ELSE idata
                 ELSE /\ "O_CREAT" \in flags
                      /\ fd' = "ino_new"
                      /\ fs' = [p \in (DOMAIN fs) \cup {name} |->
                                   IF p = name THEN "ino_new" ELSE fs[p]]
                      /\ idata' = [idata EXCEPT !.ino_new = << >>]
    /\ fd_off' = 0
    /\ pc_w' = "loop"
    /\ UNCHANGED << cfgVars, extVars, fs_cleaned, outVars, reqVars, mainVars,
                    args, total_written_local, n_unlink, loop_end, n_fsync,
                    fsync_failed, n_close, wrote, sum_ret, write_after_stop,
                    w_fail, sigVars, clockVars >>

\* open returns -1: error = 1, then done = 1.
WriterOpenFail ==
    /\ InWriter("open")
    /\ open_flags_used' = OpenFlags(args.existing_file)
    /\ args' = [args EXCEPT !.error = 1]
    /\ w_fail' = "open"
    /\ pc_w' = "set_done"
    /\ emitted' = emitted \cup {"stderr: open"}
    /\ UNCHANGED << cfgVars, extVars, fs_cleaned, shown, reqVars, mainVars,
                    fsVars, fdVars, total_written_local, n_unlink, loop_end,
                    n_fsync, fsync_failed, n_close, wrote, sum_ret,
                    write_after_stop, sigVars, clockVars >>

\* The loop condition fails at the top of the loop.
WriterLoopDone_MarksDone ==
    /\ InWriter("loop")
    /\ ~LoopCond(total_written_local, args.file_size)
    /\ loop_end' = "target"
    /\ args' = [args EXCEPT !.done = 1]
    /\ pc_w' = "fsync"
    /\ UNCHANGED << cfgVars, extVars, fs_cleaned, outVars, reqVars, mainVars,
                    fsVars, fdVars, total_written_local, n_unlink,
                    open_flags_used, n_fsync, fsync_failed, n_close, wrote,
                    sum_ret, write_after_stop, w_fail, sigVars, clockVars >>
WriterLoopDone ==
    /\ InWriter("loop")
    /\ ~LoopCond(total_written_local, args.file_size)
    /\ loop_end' = "target"
    /\ pc_w' = "fsync"
    /\ UNCHANGED << cfgVars, extVars, fs_cleaned, outVars, reqVars, mainVars,
                    args, fsVars, fdVars, total_written_local, n_unlink,
                    open_flags_used, n_fsync, fsync_failed, n_close, wrote,
                    sum_ret, write_after_stop, w_fail, sigVars, clockVars >>

\* One iteration whose write returns n >= 0 bytes, n at most the count asked for
\* and at most what the file system can take.
WriterWrite_AssumesFullBlock ==
    /\ InWriter("loop")
    /\ LoopCond(total_written_local, args.file_size)
    /\ \E n \in 0..Min(BytesToWrite(args.block_size, args.file_size, total_written_local),
                       Max(Len(idata[fd]), DiskCap) - fd_off) :
          /\ idata' = [idata EXCEPT ![fd] = WriteData(idata[fd], fd_off, n)]
          /\ fd_off' = fd_off + n
          /\ total_written_local' =
                (total_written_local
                    + BytesToWrite(args.block_size, args.file_size, total_written_local))
                % (SIZE_MAX + 1)
          /\ args' = [args EXCEPT !.total_written = total_written_local']
          /\ sum_ret' = sum_ret + n
          /\ last_ret' = n
          /\ n_progress' = n_progress + (IF n > 0 THEN 1 ELSE 0)
          /\ IF total_written_local' >= args.file_size
                THEN loop_end' = "target" /\ pc_w' = "fsync"
                ELSE loop_end' = loop_end /\ pc_w' = "loop"
    /\ last_req' = BytesToWrite(args.block_size, args.file_size, total_written_local)
    /\ prev_written' = total_written_local
    /\ wrote' = TRUE
    /\ write_after_stop' = (write_after_stop \/ loop_end # "none")
    /\ cur_write' = 0
    /\ UNCHANGED << cfgVars, extVars, fs_cleaned, outVars, mainVars, fs, fd,
                    n_unlink, open_flags_used, n_fsync, fsync_failed, n_close,
                    w_fail, sigVars, since_flush >>
WriterWrite ==
    /\ InWriter("loop")
    /\ LoopCond(total_written_local, args.file_size)
    /\ \E n \in 0..Min(BytesToWrite(args.block_size, args.file_size, total_written_local),
                       Max(Len(idata[fd]), DiskCap) - fd_off) :
          /\ idata' = [idata EXCEPT ![fd] = WriteData(idata[fd], fd_off, n)]
          /\ fd_off' = fd_off + n
          /\ total_written_local' = (total_written_local + n) % (SIZE_MAX + 1)
          /\ args' = [args EXCEPT !.total_written = total_written_local']
          /\ sum_ret' = sum_ret + n
          /\ last_ret' = n
          /\ n_progress' = n_progress + (IF n > 0 THEN 1 ELSE 0)
          /\ IF total_written_local' >= args.file_size
                THEN loop_end' = "target" /\ pc_w' = "fsync"
                ELSE loop_end' = loop_end /\ pc_w' = "loop"
    /\ last_req' = BytesToWrite(args.block_size, args.file_size, total_written_local)
    /\ prev_written' = total_written_local
    /\ wrote' = TRUE
    /\ write_after_stop' = (write_after_stop \/ loop_end # "none")
    /\ cur_write' = 0
    /\ UNCHANGED << cfgVars, extVars, fs_cleaned, outVars, mainVars, fs, fd,
                    n_unlink, open_flags_used, n_fsync, fsync_failed, n_close,
                    w_fail, sigVars, since_flush >>

\* write returns -1 with errno == ENOSPC: break, with no error recorded.
WriterWriteEnospc_AsError ==
    /\ InWriter("loop")
    /\ LoopCond(total_written_local, args.file_size)
    /\ last_req' = BytesToWrite(args.block_size, args.file_size, total_written_local)
    /\ last_ret' = -1
    /\ n_progress' = n_progress
    /\ prev_written' = total_written_local
    /\ wrote' = TRUE
    /\ write_after_stop' = (write_after_stop \/ loop_end # "none")
    /\ args' = [args EXCEPT !.error = 1]
    /\ loop_end' = "enospc"
    /\ pc_w' = "fsync"
    /\ cur_write' = 0
    /\ UNCHANGED << cfgVars, extVars, fs_cleaned, outVars, mainVars, fsVars,
                    fdVars, total_written_local, n_unlink, open_flags_used,
                    n_fsync, fsync_failed, n_close, sum_ret, w_fail, sigVars,
                    since_flush >>
WriterWriteEnospc ==
    /\ InWriter("loop")
    /\ LoopCond(total_written_local, args.file_size)
    /\ last_req' = BytesToWrite(args.block_size, args.file_size, total_written_local)
    /\ last_ret' = -1
    /\ n_progress' = n_progress
    /\ prev_written' = total_written_local
    /\ wrote' = TRUE
    /\ write_after_stop' = (write_after_stop \/ loop_end # "none")
    /\ loop_end' = "enospc"
    /\ pc_w' = "fsync"
    /\ cur_write' = 0
    /\ UNCHANGED << cfgVars, extVars, fs_cleaned, outVars, mainVars, args,
                    fsVars, fdVars, total_written_local, n_unlink,
                    open_flags_used, n_fsync, fsync_failed, n_close, sum_ret,
                    w_fail, sigVars, since_flush >>

\* write returns -1 with another errno: error = 1, break.
WriterWriteError_NoCleanup ==
    /\ InWriter("loop")
    /\ LoopCond(total_written_local, args.file_size)
    /\ last_req' = BytesToWrite(args.block_size, args.file_size, total_written_local)
    /\ last_ret' = -1
    /\ n_progress' = n_progress
    /\ prev_written' = total_written_local
    /\ wrote' = TRUE
    /\ write_after_stop' = (write_after_stop \/ loop_end # "none")
    /\ args' = [args EXCEPT !.error = 1]
    /\ loop_end' = "werror"
    /\ pc_w' = "set_done"
    /\ cur_write' = 0
    /\ emitted' = emitted \cup {"stderr: write"}
    /\ UNCHANGED << cfgVars, extVars, fs_cleaned, shown, mainVars, fsVars,
                    fdVars, total_written_local, n_unlink, open_flags_used,
                    n_fsync, fsync_failed, n_close, sum_ret, w_fail, sigVars,
                    since_flush >>
WriterWriteError ==
    /\ InWriter("loop")
    /\ LoopCond(total_written_local, args.file_size)
    /\ last_req' = BytesToWrite(args.block_size, args.file_size, total_written_local)
    /\ last_ret' = -1
    /\ n_progress' = n_progress
    /\ prev_written' = total_written_local
    /\ wrote' = TRUE
    /\ write_after_stop' = (write_after_stop \/ loop_end # "none")
    /\ args' = [args EXCEPT !.error = 1]
    /\ loop_end' = "werror"
    /\ pc_w' = "fsync"
    /\ cur_write' = 0
    /\ emitted' = emitted \cup {"stderr: write"}
    /\ UNCHANGED << cfgVars, extVars, fs_cleaned, shown, mainVars, fsVars,
                    fdVars, total_written_local, n_unlink, open_flags_used,
                    n_fsync, fsync_failed, n_close, sum_ret, w_fail, sigVars,
                    since_flush >>

\* fsync(fd) succeeds.
WriterFsync ==
    /\ InWriter("fsync")
    /\ n_fsync' = n_fsync + 1
    /\ since_flush' = 0
    /\ pc_w' = "close"
    /\ UNCHANGED << cfgVars, extVars, fs_cleaned, outVars, reqVars, mainVars,
                    args, fsVars, fdVars, total_written_local, n_unlink,
                    open_flags_used, loop_end, fsync_failed, n_close, wrote,
                    sum_ret, write_after_stop, w_fail, sigVars, cur_write >>

\* fsync(fd) returns -1: error = 1.
WriterFsyncFail_Ignored ==
    /\ InWriter("fsync")
    /\ n_fsync' = n_fsync + 1
    /\ fsync_failed' = TRUE
    /\ pc_w' = "close"
    /\ emitted' = emitted \cup {"stderr: fsync"}
    /\ UNCHANGED << cfgVars, extVars, fs_cleaned, shown, reqVars, mainVars,
                    args, fsVars, fdVars, total_written_local, n_unlink,
                    open_flags_used, loop_end, n_close, wrote, sum_ret,
                    write_after_stop, w_fail, sigVars, clockVars >>
WriterFsyncFail ==
    /\ InWriter("fsync")
    /\ n_fsync' = n_fsync + 1
    /\ fsync_failed' = TRUE
    /\ args' = [args EXCEPT !.error = 1]
    /\ pc_w' = "close"
    /\ emitted' = emitted \cup {"stderr: fsync"}
    /\ UNCHANGED << cfgVars, extVars, fs_cleaned, shown, reqVars, mainVars,
                    fsVars, fdVars, total_written_local, n_unlink,
                    open_flags_used, loop_end, n_close, wrote, sum_ret,
                    write_after_stop, w_fail, sigVars, clockVars >>

\* close(fd); free(buffer).
WriterClose ==
    /\ InWriter("close")
    /\ fd' = "none"
    /\ n_close' = n_close + 1
    /\ pc_w' = "set_done"
    /\ UNCHANGED << cfgVars, extVars, fs_cleaned, outVars, reqVars, mainVars,
                    args, fsVars, fd_off, total_written_local, n_unlink,
                    open_flags_used, loop_end, n_fsync, fsync_failed, wrote,
                    sum_ret, write_after_stop, w_fail, sigVars, clockVars >>

\* params->done = 1; pthread_exit(NULL).
WriterSetDone ==
    /\ InWriter("set_done")
    /\ args' = [args EXCEPT !.done = 1]
    /\ pc_w' = "thread_exit"
    /\ UNCHANGED << cfgVars, extVars, fs_cleaned, outVars, reqVars, mainVars,
                    fsVars, fdVars, total_written_local, n_unlink, writerHist,
                    sigVars, clockVars >>

\* Time passes while the writer is blocked in write().
Tick ==
    /\ InWriter("loop")
    /\ LoopCond(total_written_local, args.file_size)
    /\ since_flush + TickSec <= MaxElapsed
    /\ since_flush' = since_flush + TickSec
    /\ cur_write' = cur_write + TickSec
    /\ UNCHANGED << cfgVars, extVars, fs_cleaned, outVars, reqVars, mainVars,
                    args, pc_w, fsVars, fdVars, total_written_local, n_unlink,
                    writerHist, sigVars >>

\* ------------------------------------------------------- specifications
MainNext ==
    \/ MainGetoptEnd
    \/ MainGetoptBlock
    \/ MainGetoptBlockSuffix
    \/ MainGetoptBlockZero
    \/ MainMissingPath
    \/ MainPathArg
    \/ MainNoFileSize
    \/ MainParseFileSize
    \/ MainParseFileSizeSuffix
    \/ MainDefaultBlock
    \/ MainStatFail
    \/ MainClassifyDir
    \/ MainClassifyReg
    \/ MainClassifyOther
    \/ MainCreateThread
    \/ MainCreateThreadFail
    \/ MainObserve
    \/ MainPollExit
    \/ MainJoin
    \/ MainCheckError
    \/ CleanExitUnlink
    \/ CleanExitExit
    \/ ExitHandler
    \/ Terminate

WriterNext ==
    \/ WriterMalloc
    \/ WriterMallocFail
    \/ WriterOpen
    \/ WriterOpenFail
    \/ WriterLoopDone
    \/ WriterWrite
    \/ WriterWriteEnospc
    \/ WriterWriteError
    \/ WriterFsync
    \/ WriterFsyncFail
    \/ WriterClose
    \/ WriterSetDone

Next == MainNext \/ WriterNext \/ SignalHandler

Spec == Init /\ [][Next]_vars

\* parse_size on its own: one call on one token.
InitParse ==
    /\ path_arg = ShortPath
    /\ tok \in ParseTokens
    /\ parse_result = NotParsed
    /\ arg_path = FALSE
    /\ arg_size = NoToken
    /\ arg_block = NoToken
    /\ show_status = FALSE
    /\ statvfs_free = 0
    /\ shown = NothingShown
    /\ emitted = {}
    /\ fs_cleaned = NotCleaned
    /\ last_req = 0
    /\ n_progress = 0
    /\ last_ret = 0
    /\ prev_written = 0
    /\ path_kind = "nostat"
    /\ st_size = 0
    /\ file_size = SIZE_MAX
    /\ block_size = 0
    /\ g_hidden_filename = EmptyString
    /\ args = [filename |-> EmptyString, file_size |-> 0, block_size |-> 0,
               existing_file |-> 0, known_free_space |-> 0, total_written |-> 0,
               done |-> 0, error |-> 0]
    /\ pc_main = "parse_size"
    /\ pc_w = "not_started"
    /\ exit_status = EXIT_SUCCESS
    /\ proc = "running"
    /\ fs = << >>
    /\ idata = [ino_pre |-> << >>, ino_new |-> << >>]
    /\ fd = "none"
    /\ fd_off = 0
    /\ total_written_local = 0
    /\ n_unlink = 0
    /\ open_flags_used = {}
    /\ loop_end = "none"
    /\ n_fsync = 0
    /\ fsync_failed = FALSE
    /\ n_close = 0
    /\ wrote = FALSE
    /\ sum_ret = 0
    /\ write_after_stop = FALSE
    /\ w_fail = "none"
    /\ sig_handled = FALSE
    /\ sig_after_reg = FALSE
    /\ since_flush = 0
    /\ cur_write = 0

\* parse_size(tok) returns, or ends the process on an invalid suffix.
ParseSizeCall ==
    /\ pc_main = "parse_size" /\ ~parse_result.called
    /\ parse_result' = Parsed(parse_size(tok.text))
    /\ pc_main' = IF parse_result'.ok THEN "parsed" ELSE "eh_unlink"
    /\ exit_status' = IF parse_result'.ok THEN exit_status ELSE EXIT_FAILURE
    /\ emitted' = IF parse_result'.ok THEN emitted
                   ELSE emitted \cup {"stderr: Invalid size suffix"}
    /\ shown' = shown
    /\ UNCHANGED << cfgVars, fs_cleaned, reqVars, sizeVars, g_hidden_filename,
                    args, pc_w, proc, fsVars, fdVars, total_written_local,
                    n_unlink, writerHist, sigVars, clockVars >>

NextParse == ParseSizeCall \/ ExitHandler \/ Terminate

SpecParse == InitParse /\ [][NextParse]_vars

SpecLongPath == InitLongPath /\ [][Next]_vars

\* The program under fair scheduling, with no signal and with every
\* successful write returning at least 1 byte.
WriterWriteProgress == WriterWrite /\ last_ret' >= 1

WriterNextLive ==
    \/ WriterMalloc
    \/ WriterMallocFail
    \/ WriterOpen
    \/ WriterOpenFail
    \/ WriterLoopDone
    \/ WriterWriteProgress
    \/ WriterWriteEnospc
    \/ WriterWriteError
    \/ WriterFsync
    \/ WriterFsyncFail
    \/ WriterClose
    \/ WriterSetDone

NextLive == MainNext \/ WriterNextLive

\* The runs checked for termination: fewer command lines, the target of
\* MaxLen bytes or none.
InitLive ==
    /\ Init
    /\ arg_size \in {NoToken, InvalidTok, NumTok(MaxLen)}
    /\ arg_block \in {NoToken, InvalidTok, NumTok(0), NumTok(1)}
    /\ st_size \in {0, MaxLen}
    /\ statvfs_free = 0

SpecLive ==
    InitLive /\ [][NextLive]_vars /\ WF_vars(MainNext) /\ WF_vars(WriterNextLive)

\* The same program with the clock running.
NextTimed == Next \/ Tick

SpecTimed == Init /\ [][NextTimed]_vars


\* ---------------------------------------------------------------- claims
Exited == proc = "exited"
SentinelExists == Sentinel \in DOMAIN fs
WriterPastFlush == pc_w \in {"close", "set_done", "thread_exit"}
HiddenFileRegistered == g_hidden_filename # EmptyString

\* C1: for a directory target that passed the startup validation (the
\* sentinel path is registered), when the process has ended through the main
\* flow (no signal handled), whatever the writer's outcome and whether or not
\* <dir>/.fillfs existed before the run, <dir>/.fillfs does not exist.
C1_SentinelRemovedOnMainFlow ==
    (Exited /\ path_kind = "dir" /\ HiddenFileRegistered /\ ~sig_handled)
        => ~SentinelExists

\* C1 witness: a main-flow exit of a directory job whose writer created the
\* sentinel, wrote to it and was stopped by a full disk.
C1_Witness ==
    /\ Exited /\ path_kind = "dir" /\ ~sig_handled
    /\ loop_end = "enospc" /\ sum_ret > 0 /\ n_unlink > 0
    /\ ~SentinelExists

\* C2 (the claim as stated): for a directory target, when a termination signal
\* was handled after the sentinel path was registered, then once the process
\* has exited the sentinel does not exist and the exit code is a failure.
C2_SentinelRemovedOnSignal ==
    (Exited /\ sig_after_reg) => (~SentinelExists /\ exit_status = EXIT_FAILURE)

\* C3: for an existing regular-file target, in every state (every exit path
\* included) no unlink has been issued, the open used neither O_CREAT nor
\* O_TRUNC, and the user's file still exists.
C3_ExistingFilePreserved ==
    path_kind = "reg" =>
        /\ n_unlink = 0
        /\ "O_CREAT" \notin open_flags_used
        /\ "O_TRUNC" \notin open_flags_used
        /\ PathArg \in DOMAIN fs

\* C3 witness: a regular-file job that was opened and written to, then ended
\* by a signal.
C3_Witness ==
    /\ Exited /\ path_kind = "reg" /\ sig_handled
    /\ open_flags_used # {} /\ wrote /\ sum_ret > 0
    /\ PathArg \in DOMAIN fs

\* C4: with a concrete byte target, bytes_written (the shared counter and the
\* writer's local one) never exceeds the target, and when the loop ended
\* because the target was reached it equals the target.
C4_NeverExceedsTarget ==
    args.file_size # SIZE_MAX =>
        /\ args.total_written <= args.file_size
        /\ total_written_local <= args.file_size
        /\ (loop_end = "target" => args.total_written = args.file_size)

\* C4 witness: a target that is no multiple of the block size was reached.
C4_Witness ==
    /\ loop_end = "target" /\ args.file_size = MaxLen /\ args.block_size = MaxBlock
    /\ args.total_written = MaxLen

\* C5: after a write failed with ENOSPC no further write is issued, the final
\* flush is performed, bytes_written is the sum of the counts the successful
\* writes returned, and, the flush succeeding, a run that no signal ends
\* exits with code 0.
C5_DiskFull ==
    /\ ~write_after_stop
    /\ loop_end = "enospc" =>
          /\ args.total_written = sum_ret
          /\ total_written_local = sum_ret
          /\ args.error = 0 \/ fsync_failed
          /\ WriterPastFlush => n_fsync = 1
          /\ (Exited /\ ~fsync_failed /\ ~sig_handled) =>
                (n_fsync = 1 /\ exit_status = EXIT_SUCCESS)

\* C5 witness: some bytes were written, then ENOSPC, the flush succeeded and
\* the process exited 0.
C5_Witness ==
    /\ Exited /\ loop_end = "enospc" /\ sum_ret > 0
    /\ ~fsync_failed /\ ~sig_handled /\ exit_status = EXIT_SUCCESS


\* C6: once the process has exited, the exit code is 1 if the writer hit an
\* open failure, a write failure other than ENOSPC or a flush failure, or if a
\* signal was handled; it is 0 if the loop ended by target reached or disk full
\* with none of those.  No write is ever issued after a failed write.
C6_ExitCode ==
    /\ ~write_after_stop
    /\ loop_end = "werror" => pc_w # "loop"
    /\ Exited =>
          /\ (w_fail = "open" \/ loop_end = "werror" \/ fsync_failed \/ sig_handled)
                => exit_status = EXIT_FAILURE
          /\ (loop_end \in {"target", "enospc"} /\ w_fail = "none"
                /\ ~fsync_failed /\ ~sig_handled)
                => exit_status = EXIT_SUCCESS

\* C6 witness: a write failed with an errno other than ENOSPC after some bytes
\* were written, and the process exited 1 with no signal involved.
C6_Witness ==
    /\ Exited /\ loop_end = "werror" /\ sum_ret > 0 /\ ~sig_handled
    /\ ~fsync_failed /\ exit_status = EXIT_FAILURE

\* The user's file, for a regular-file target.
UserFile == idata[fs[PathArg]]
EffectiveTarget == Min(file_size, st_size)

\* C7: for an existing regular file of size S and requested size R (SIZE_MAX
\* when none), the job's target is min(R, S); the descriptor starts at offset
\* 0 and advances by what was written; only bytes in [0, min(R, S)) are
\* overwritten; the file's length stays S.
C7_ExistingFileBounds ==
    (path_kind = "reg" /\ PathArg \in DOMAIN fs) =>
        /\ Len(UserFile) = st_size
        /\ pc_w # "not_started" => args.file_size = EffectiveTarget
        /\ fd_off = total_written_local
        /\ \A i \in 1..Len(UserFile) :
              UserFile[i] = "new" <=> i <= total_written_local
        /\ total_written_local <= EffectiveTarget

\* C7 witness: a 2-byte file, a larger request, both bytes overwritten, the
\* process exited and the file still has 2 bytes.
C7_Witness ==
    /\ Exited /\ path_kind = "reg" /\ st_size = MaxLen - 1 /\ file_size = MaxLen
    /\ PathArg \in DOMAIN fs
    /\ UserFile = Repeat("new", MaxLen - 1)

\* A job whose effective target is 0 bytes and whose writer was started.
ZeroTargetJob ==
    /\ path_kind \in {"dir", "reg"}
    /\ pc_w # "not_started"
    /\ args.file_size = 0

\* C8 (the claim as stated, read for runs that no signal ends): a job whose
\* effective target is 0 issues no write, ends with bytes_written = 0 in the
\* target-reached outcome, and the process exits with code 0.
C8_ZeroTargetAlwaysSucceeds ==
    (Exited /\ ZeroTargetJob /\ ~sig_handled) =>
        /\ ~wrote
        /\ args.total_written = 0
        /\ loop_end = "target"
        /\ exit_status = EXIT_SUCCESS

\* C8 (amended): a job whose effective target is 0 issues no write and leaves
\* bytes_written at 0; when the allocation, the open and the final flush
\* succeed and no signal is handled, it ends in the target-reached outcome and
\* the process exits with code 0.
C8_ZeroTarget ==
    ZeroTargetJob =>
        /\ ~wrote
        /\ args.total_written = 0
        /\ total_written_local = 0
        /\ loop_end \in {"none", "target"}
        /\ (Exited /\ w_fail = "none" /\ ~fsync_failed /\ ~sig_handled) =>
              (loop_end = "target" /\ exit_status = EXIT_SUCCESS)

\* C8 witness: a zero-length existing file, no size requested, exited 0.
C8_Witness ==
    /\ Exited /\ ZeroTargetJob /\ path_kind = "reg" /\ st_size = 0
    /\ file_size = SIZE_MAX /\ loop_end = "target" /\ ~wrote
    /\ exit_status = EXIT_SUCCESS

\* C9: once the target has been opened, no flush is issued while the loop
\* runs, exactly one has been issued once the writer is past the loop,
\* whatever ended the loop, and a failed flush makes the exit code 1.
C9_FinalFlush ==
    /\ n_fsync <= 1
    /\ pc_w \in {"loop", "fsync"} => n_fsync = 0
    /\ (w_fail = "none" /\ WriterPastFlush) => (n_fsync = 1 /\ loop_end # "none")
    /\ w_fail # "none" => n_fsync = 0
    /\ (Exited /\ fsync_failed) => exit_status = EXIT_FAILURE

\* C9 witness: every write succeeded, the target was reached, the flush
\* failed, and the process exited 1 with no signal involved.
C9_Witness ==
    /\ Exited /\ loop_end = "target" /\ sum_ret > 0 /\ fsync_failed
    /\ n_fsync = 1 /\ ~sig_handled /\ exit_status = EXIT_FAILURE

\* C10 (the claim as stated): while the write loop runs, whenever a write is
\* about to start at most FLUSH_INTERVAL_SEC seconds have passed since the
\* last flush or the start of the loop; that is, the time since then is at
\* most 60 seconds plus the write in flight.
C10_PeriodicFlush ==
    pc_w = "loop" => since_flush - cur_write <= FLUSH_INTERVAL_SEC


\* ------------------------------------------------------ claims: parse_size
ValidSuffix ==
    tok.suffix # << >> /\ \E k \in 1..Len(SuffixChars) : SuffixChars[k] = ToLower(tok.suffix[1])

\* N * 1024^k, exactly, for the token's number N and suffix.
ExactSize ==
    IF tok.suffix = << >> THEN ToLimbs(tok.num, WideLimbs)
    ELSE MulSmall(Multiplier_Exact(SuffixPower(ToLower(tok.suffix[1]))), tok.num)

\* C11 (the claim as stated): for a token N followed by one suffix of
\* K,M,G,T,P,E,Z,Y in either case, parse_size returns N * 1024^k, k = 1..8; for
\* a token N alone it returns N.
C11_ParseSizeExact ==
    (parse_result.called /\ (ValidSuffix \/ tok.suffix = << >>)) =>
        (parse_result.ok /\ Widen(parse_result.size, WideLimbs) = ExactSize)

\* C11, the part that holds: the same for the suffixes K to E and for none
\* (N * 1024^k below 2^64).
C11_ParseSizeExactToExa ==
    (parse_result.called /\ tok.suffix \notin {<<"z">>, <<"Z">>, <<"y">>, <<"Y">>, <<"q">>}) =>
        (parse_result.ok /\ Widen(parse_result.size, WideLimbs) = ExactSize)

\* ---------------------------------------------- claims: startup validation
BlockTokInvalid ==
    arg_block # NoToken /\ (~parse_size(arg_block).ok
                              \/ parse_size(arg_block).size = ToLimbs(0, SizeLimbs))
SizeTokInvalid == arg_size # NoToken /\ ~parse_size(arg_size).ok

\* The command line or the target fails the startup validation.
StartupFailure ==
    \/ ~arg_path
    \/ BlockTokInvalid
    \/ SizeTokInvalid
    \/ path_kind \in {"nostat", "other"}

\* C12: when the path argument is missing, the size or block-size token has
\* an unrecognized suffix, the block size resolves to 0, the target cannot be
\* stat'ed or is neither a directory nor a regular file, the writer is never
\* started, no sentinel path is registered, no open, write or unlink is
\* issued, and the process exits with code 1; a started job has a block size
\* that is not 0, and 32 MiB when no -b was given.
C12_StartupValidation ==
    /\ StartupFailure =>
          /\ pc_w = "not_started"
          /\ ~HiddenFileRegistered
          /\ n_unlink = 0 /\ open_flags_used = {} /\ ~wrote
          /\ idata.ino_new = << >>
          /\ \A i \in 1..Len(idata.ino_pre) : idata.ino_pre[i] = "old"
          /\ Exited => exit_status = EXIT_FAILURE
    /\ pc_w # "not_started" =>
          /\ args.block_size > 0
          /\ arg_block = NoToken => args.block_size = 32 * 1024 * 1024

\* C12 witness: -b 0 on a directory that holds a .fillfs from before; the
\* process exited 1 with no signal and the file is still there, untouched.
C12_Witness ==
    /\ Exited /\ ~sig_handled /\ exit_status = EXIT_FAILURE
    /\ path_kind = "dir" /\ arg_path /\ arg_block = NumTok(0)
    /\ SentinelExists /\ idata[fs[Sentinel]] = <<"old">>

\* C12 witness of the default: a job with no -b wrote with a 32 MiB block.
C12_WitnessDefault ==
    /\ pc_w = "thread_exit" /\ arg_block = NoToken /\ wrote
    /\ args.block_size = 32 * 1024 * 1024

\* ------------------------------------------------- claims: the write loop
\* What one write call is to ask for, after prev bytes.
Requested(block, target, prev) ==
    IF target = SIZE_MAX THEN block ELSE Min(block, target - prev)

C13_Inv ==
    wrote =>
        /\ last_req = Requested(args.block_size, args.file_size, prev_written)
        /\ last_ret <= last_req
        /\ total_written_local = prev_written + Max(last_ret, 0)
        /\ args.total_written = total_written_local

C13_Step ==
    /\ args'.total_written >= args.total_written
    /\ total_written_local' >= total_written_local
    /\ (args'.total_written # args.total_written
           \/ total_written_local' # total_written_local) =>
          /\ pc_w = "loop" /\ wrote'
          /\ last_ret' > 0
          /\ prev_written' = total_written_local
          /\ args'.total_written = args.total_written + last_ret'

\* C13: each write asks for min(block, target - bytes_written) bytes, a full
\* block when the target is unbounded; a write that returns n bytes advances
\* bytes_written by exactly n, so that the next request is computed from the
\* new value; bytes_written never decreases and no step other than a write
\* that returned bytes changes it.
C13_WriteRequests == []C13_Inv /\ [][C13_Step]_vars

\* C13 witness: block 2, target 3, a short write of 1 byte, then a second
\* request of 2 bytes that also returned 1.
C13_Witness ==
    /\ args.block_size = MaxBlock /\ args.file_size = MaxLen
    /\ prev_written = 1 /\ last_req = MaxBlock /\ last_ret = 1
    /\ args.total_written = 2

\* ------------------------------------------- claims: the progress observer
WriterActive == Running /\ pc_w \notin {"not_started", "thread_exit"}

\* Whatever the main thread is doing, the writer has a step it can take.
C14_WriterNeverWaits == WriterActive => ENABLED WriterNext

C14_Step ==
    MainObserve =>
        UNCHANGED << args, fsVars, fdVars, total_written_local, pc_w, writerHist,
                     reqVars >>

\* C14: a step of the progress observer leaves bytes_written, done, error, the
\* target size, the file contents and every other piece of the writer's state
\* unchanged, and in no state of the main thread is the writer left without a
\* step to take.
C14_ObserverFrame == []C14_WriterNeverWaits /\ [][C14_Step]_vars

\* C14 witness: the observer printed the line for 1 byte and the writer has
\* written a second byte since.
C14_Witness ==
    /\ show_status /\ shown.printed /\ shown.tw = 1
    /\ args.total_written = 2 /\ pc_w = "loop"

\* ------------------------------------------- claims: the progress figures
UnboundedJob == path_kind = "dir" /\ args.file_size = SIZE_MAX

\* C19: for every value of bytes_written the observer read, the percentage
\* printed (in hundredths) lies between 0 and 100.00; it is
\* 100 * bytes_written / target for a bounded job with a target above 0, and
\* 100 * bytes_written / hint, or 100.00 when bytes_written exceeds the hint,
\* for an unbounded job with a hint; the remaining-bytes figure is never
\* negative.
C19_ProgressFigures ==
    shown.printed =>
        /\ 0 <= shown.percent /\ shown.percent <= 100 * 100
        /\ shown.remaining >= 0
        /\ (~UnboundedJob /\ args.file_size > 0) =>
              shown.percent = (100 * 100 * shown.tw) \div args.file_size
        /\ (UnboundedJob /\ args.known_free_space > 0) =>
              shown.percent = IF shown.tw > args.known_free_space THEN 100 * 100
                              ELSE (100 * 100 * shown.tw) \div args.known_free_space

\* C19 witness: an unbounded job whose hint is smaller than what was written;
\* the line printed for DiskCap bytes shows 100.00 and nothing remaining.
C19_Witness ==
    /\ shown.printed /\ UnboundedJob
    /\ args.known_free_space = DiskCap - 1 /\ shown.tw = DiskCap
    /\ shown.percent = 100 * 100 /\ shown.remaining = 0

\* C19 witness for a bounded job: 1 byte of 3 shows 33.33 and 2 remaining.
C19_WitnessBounded ==
    /\ shown.printed /\ ~UnboundedJob /\ args.file_size = 3
    /\ shown.tw = 1 /\ shown.percent = 3333 /\ shown.remaining = 2

\* ------------------------------------------------ claims: the descriptor
Opened == open_flags_used # {} /\ w_fail = "none"

\* C15: once the writer has opened the target, done = 1 (and already the step
\* before it) finds the descriptor closed, exactly once, whatever ended the
\* loop and whether or not the flush failed; when the open fails, no close,
\* write or flush is issued.
C15_DescriptorClosed ==
    /\ n_close <= 1
    /\ (Opened /\ (args.done # 0 \/ pc_w \in {"set_done", "thread_exit"})) =>
          (n_close = 1 /\ fd = "none")
    /\ (Opened /\ pc_w \in {"loop", "fsync", "close"}) => (n_close = 0 /\ fd # "none")
    /\ w_fail = "open" =>
          (n_close = 0 /\ ~wrote /\ n_fsync = 0 /\ fd = "none")

\* C15 witness: a write error after some bytes, then a failed flush; the
\* descriptor was closed and done is set.
C15_Witness ==
    /\ args.done = 1 /\ loop_end = "werror" /\ sum_ret > 0 /\ fsync_failed
    /\ n_close = 1 /\ fd = "none"

\* C15 witness for the open failure.
C15_WitnessOpenFail ==
    /\ args.done = 1 /\ w_fail = "open" /\ n_close = 0 /\ path_kind = "reg"

\* ------------------------------------------- claims: the sentinel path
C16_Inv ==
    /\ HiddenFileRegistered => (path_kind = "dir" /\ g_hidden_filename = Sentinel)
    /\ (path_kind = "dir" /\ pc_w # "not_started") => g_hidden_filename = Sentinel
    /\ args.filename # EmptyString =>
          args.filename = IF path_kind = "dir" THEN Sentinel ELSE PathArg

C16_Step ==
    g_hidden_filename' # g_hidden_filename =>
        /\ g_hidden_filename = EmptyString
        /\ path_kind = "dir" /\ pc_main = "classify" /\ pc_w = "not_started"

\* C16 (the claim as stated): g_hidden_filename is empty until a directory
\* target is classified, is then set once, to <dir>/.fillfs, before the
\* writer thread is created, and never changes afterwards; it stays empty for
\* a regular file.
C16_SentinelPathSetOnce == []C16_Inv /\ [][C16_Step]_vars

\* C16, the part that holds for every path: set at most once, at the
\* classification of a directory and before the writer starts, never changed,
\* and empty for anything but a directory.
C16_SetOnce ==
    [](HiddenFileRegistered => path_kind = "dir") /\ [][C16_Step]_vars

\* ------------------------------------------------------- claims: cleanup
\* A step of exit_handler, the exit-time hook.
ExitHookStep == pc_main = "eh_unlink" /\ pc_main' = "terminate"

C17_Step ==
    ExitHookStep =>
        /\ exit_status' = exit_status
        /\ idata' = idata
        /\ g_hidden_filename \notin DOMAIN fs => fs' = fs
        /\ fs_cleaned.ran => (DOMAIN fs' = DOMAIN fs_cleaned.dir /\ fs_cleaned' = fs_cleaned)
        /\ path_kind = "reg" => (fs' = fs /\ n_unlink' = 0)

\* C17: the exit-time hook, run after clean_exit (called from the main flow
\* or from the signal handler), leaves the directory as the first removal
\* left it and the exit code as it was; unlinking a name that is absent
\* changes nothing and is no error; and for a regular-file target no removal
\* is ever issued by any cleanup.
C17_CleanupIdempotent ==
    [](path_kind = "reg" => (n_unlink = 0 /\ PathArg \in DOMAIN fs))
        /\ [][C17_Step]_vars

\* C17 witness: a directory job written to and ended on the main flow, the
\* removal run twice, the exit code still 0.
C17_Witness ==
    /\ pc_main = "terminate" /\ path_kind = "dir" /\ ~sig_handled
    /\ n_unlink = 2 /\ sum_ret > 0 /\ exit_status = EXIT_SUCCESS
    /\ fs_cleaned.ran /\ DOMAIN fs = DOMAIN fs_cleaned.dir

\* C17 witness for the signal hook followed by the exit-time hook.
C17_WitnessSignal ==
    /\ pc_main = "terminate" /\ path_kind = "dir" /\ sig_handled
    /\ n_unlink = 2 /\ sum_ret > 0 /\ exit_status = EXIT_FAILURE

\* ----------------------------------------------------- claims: messages
\* The job ended because the device is full, with no signal and no failure.
EndedDiskFull == loop_end = "enospc" /\ ~sig_handled

\* The messages the program prints that are informational (on stdout).
Informational == {"stdout: progress", "stdout: finalizing", "stdout: complete"}

\* C18 (the claim as stated): with status display enabled, when the job ended
\* because the device is full, an informational notice that the disk is full
\* has been printed by the time the process has exited.
C18_DiskFullNotice ==
    (Exited /\ show_status /\ EndedDiskFull) => "stdout: disk full" \in emitted

\* C18, what the program does print in that case: the same final lines as for
\* a target that was reached, and no error diagnostic for the failed write.
C18_DiskFullOutput ==
    (Exited /\ show_status /\ EndedDiskFull /\ ~fsync_failed) =>
        /\ emitted \subseteq Informational
        /\ {"stdout: finalizing", "stdout: complete"} \subseteq emitted

\* ------------------------------------------- claims: order of the unlink
MainFlowUnlinked == ~sig_handled /\ n_unlink > 0

C20_Inv ==
    /\ MainFlowUnlinked =>
          (pc_w = "not_started" \/ (args.done = 1 /\ pc_w = "thread_exit"))
    /\ args.done # 0 =>
          /\ pc_w = "thread_exit" /\ fd = "none"
          /\ Opened => (n_fsync = 1 /\ n_close = 1 /\ loop_end # "none")

C20_Step ==
    MainFlowUnlinked =>
        UNCHANGED << idata, fdVars, total_written_local, writerHist, reqVars, args, pc_w >>

\* C20: with no signal handled, an unlink has been issued only if the writer
\* was never started or has set done; done is set only after the last write,
\* the flush and the close; and from the main flow's unlink on the writer
\* issues no open, write, flush or close.
C20_UnlinkAfterDone == []C20_Inv /\ [][C20_Step]_vars

\* C20 witness: a directory job that wrote, flushed and closed, and was then
\* unlinked by clean_exit and by exit_handler on the main flow.
C20_Witness ==
    /\ Exited /\ path_kind = "dir" /\ ~sig_handled /\ n_unlink = 2
    /\ sum_ret > 0 /\ n_fsync = 1 /\ n_close = 1 /\ args.done = 1

\* --------------------------------------------- claims: error and done
\* A failure occurred on the writer's path: the allocation, the open, a
\* write with an errno other than ENOSPC, or the flush.
WriterFailed ==
    w_fail # "none" \/ loop_end = "werror" \/ fsync_failed

C21_Inv ==
    /\ args.done # 0 => (args.error = 1 <=> WriterFailed)
    /\ args.done # 0 => args.total_written = total_written_local
    /\ pc_main = "check_error" => args.done = 1
    /\ args.error \in {0, 1}

C21_Step ==
    /\ args.done # 0 =>
          /\ args'.done = args.done
          /\ args'.error = args.error
          /\ args'.total_written = args.total_written
    /\ args'.done # args.done =>
          (pc_w = "set_done" /\ args'.error = args.error)
    /\ args.error = 1 => args'.error = 1

\* C21: on every path of the writer the error flag has its final value when
\* done is set (the step that sets done leaves it alone and no later step
\* changes error, done or bytes_written), so that with done = 1, and where
\* main reads error after the join, error is 1 exactly when the allocation,
\* the open, a write (other than by ENOSPC) or the flush failed.
C21_ErrorBeforeDone == []C21_Inv /\ [][C21_Step]_vars

\* C21 witness: every write succeeded and the flush failed; main is about to
\* read error, which is 1, with done = 1.
C21_Witness ==
    /\ pc_main = "check_error" /\ ~sig_handled /\ args.done = 1
    /\ loop_end = "target" /\ sum_ret > 0 /\ fsync_failed /\ args.error = 1

\* C21 witness for a disk-full run: done = 1 and error = 0.
C21_WitnessDiskFull ==
    /\ pc_main = "check_error" /\ args.done = 1 /\ loop_end = "enospc"
    /\ ~fsync_failed /\ args.error = 0

\* ------------------------------------------------- claims: termination
ConcreteJob == pc_w # "not_started" /\ args.file_size # SIZE_MAX
UnboundedStarted == pc_w # "not_started" /\ UnboundedJob

\* With every successful write returning at least 1 byte, the writes that
\* succeeded are at most as many as the bytes of the target.
C22_WriteCount ==
    /\ (wrote /\ last_ret >= 0) => last_ret >= 1
    /\ ConcreteJob => (n_progress <= args.total_written
                         /\ args.total_written <= args.file_size)

\* C22 (the claim as stated): under fair scheduling, with no signal and every
\* successful write returning at least 1 byte, a job with a concrete target
\* sets done after at most target_bytes writes, main then leaves its loop and
\* the process exits; an unbounded job has exited only if a write failed.
C22_TerminationAsStated ==
    /\ []C22_WriteCount
    /\ (ConcreteJob ~> args.done = 1)
    /\ (args.done = 1 ~> Exited)
    /\ []((UnboundedStarted /\ Exited) => loop_end \in {"enospc", "werror"})

\* C22 (amended): the same for a concrete target; an unbounded job whose
\* allocation and open succeeded leaves its write loop, and so terminates,
\* only once a write has failed, by ENOSPC or by another error.
C22_Termination ==
    /\ []C22_WriteCount
    /\ (ConcreteJob ~> args.done = 1)
    /\ (args.done = 1 ~> Exited)
    /\ []((UnboundedStarted /\ w_fail = "none" /\ (Exited \/ args.done = 1))
             => loop_end \in {"enospc", "werror"})

\* C22 witness: a target of MaxLen bytes reached by MaxLen writes of 1 byte;
\* done was set and the process exited.
C22_Witness ==
    /\ Exited /\ args.done = 1 /\ args.file_size = MaxLen
    /\ loop_end = "target" /\ n_progress = MaxLen /\ args.total_written = MaxLen

\* C22 witness for the unbounded job: it exited after a write failed.
C22_WitnessUnbounded ==
    /\ Exited /\ UnboundedStarted /\ loop_end = "enospc" /\ n_progress > 0

====
